---- MODULE Spec2Model ----
(***************************************************************************)
(* Model of scripts_py/rebuild.py: the `rebuild` command that synchronises *)
(* the root-owned configuration checkout /etc/nixos (through a local bare  *)
(* mirror, or as a git worktree) and then execs nixos-rebuild.             *)
(*                                                                         *)
(* One behaviour of the model is one invocation of main().  The variables  *)
(* are the filesystem state the invocation reads and writes (mirror,       *)
(* target checkout), the position of main (pc), the resolved RebuildConfig *)
(* and history of the steps taken and the subprocesses started.            *)
(***************************************************************************)
EXTENDS Integers, Sequences, FiniteSets, TLC

\* ---------------------------------------------------------------- bounds
\* subprocess exit codes are 0..MaxRc
MaxRc == 2
\* commits of the main line are 0..MaxCommit (a <= b: a is an ancestor of b)
MaxCommit == 1

\* how many operations a run of SpecOps calls
MaxOps == 2
\* the filesystem root is at most MaxDepth directories above a script
MaxDepth == 10
\* argument vectors have at most MaxArgs tokens
MaxArgs == 4

ExitCodes == 0..MaxRc
Commits == 0..MaxCommit

\* "no value" markers
NoCommit == -1
None == -1

VARIABLES
    pc,            \* position of main()
    cfg,           \* RebuildConfig returned by compute_config
    mirror,        \* the bare mirror at cfg.mirror_dir
    target,        \* the directory /etc/nixos
    upstreamHead,  \* refs/heads/main at the network upstream
    devHead,       \* refs/heads/main of the unprivileged checkout
    repoFetched,   \* unprivileged checkout has fetched origin in this run
    upstream,      \* main's local `upstream`: "unset", "" or "url"
    steps,         \* history: the functions main has called, with results
    calls,         \* history: the subprocesses started, in order
    rootContacted, \* history: remotes a privileged fetch has contacted
    result,        \* return value of main, None while running
    euid,          \* what os.geteuid() returned to build_exec_command
    peer,          \* a second invocation running at the same time
    arg,           \* argument of a function called on its own
    ret            \* what that function returned and left behind

vars == <<pc, cfg, mirror, target, upstreamHead, devHead, repoFetched,
          upstream, steps, calls, rootContacted, result, euid, peer,
          arg, ret>>

\* ------------------------------------------------------- filesystem state
AbsentMirror == [exists |-> FALSE, head |-> NoCommit]

MirrorStates ==
    {AbsentMirror} \cup {[exists |-> TRUE, head |-> h] : h \in Commits}

AbsentTarget ==
    [exists |-> FALSE, flake |-> FALSE, git |-> FALSE, origin |-> "none",
     head |-> NoCommit, diverged |-> FALSE, dirty |-> FALSE]

\* directory with flake.nix but no .git
ForeignTarget == [AbsentTarget EXCEPT !.exists = TRUE, !.flake = TRUE]

\* directory with neither flake.nix nor .git
EmptyTarget == [AbsentTarget EXCEPT !.exists = TRUE]

ValidTargets ==
    {[exists |-> TRUE, flake |-> TRUE, git |-> TRUE, origin |-> o,
      head |-> h, diverged |-> d, dirty |-> y] :
        o \in {"mirror", "upstream"}, h \in Commits,
        d \in BOOLEAN, y \in BOOLEAN}

TargetStates == {AbsentTarget, ForeignTarget, EmptyTarget} \cup ValidTargets

\* the check of root_ensure_etc_nixos_clone: flake.nix and .git both present
IsValidCheckout(t) == t.flake /\ t.git

\* ----------------------------------------------------------- compute_config
FlakeArgs == {"none", "etc", "other"}
SyncArgs == {"none", "yes", "no"}

ArgsSet ==
    [dev : BOOLEAN, flake : FlakeArgs, sync : SyncArgs,
     sync_checkout : BOOLEAN, mirror : BOOLEAN, offline_ok : BOOLEAN,
     hostname : BOOLEAN]

\* what compute_config reads besides /etc/nixos
EnvSet == [repoFound : BOOLEAN, hostFile : BOOLEAN, otherFlake : BOOLEAN]

\* cfg before compute_config has run
NoCfg ==
    [ok |-> FALSE, error |-> "none", flake_dir |-> "none",
     sync_etc_nixos |-> FALSE, sync_checkout |-> FALSE,
     use_mirror |-> FALSE, offline_ok |-> FALSE]

flake_dir_of(args) ==
    IF args.flake # "none" THEN args.flake
    ELSE IF args.dev THEN "repo" ELSE "etc"

\* variant: /etc/nixos is accepted without looking for flake.nix
has_flake_nix_EtcUnchecked(dir, t, env) ==
    CASE dir = "etc" -> TRUE
      [] dir = "repo" -> TRUE
      [] OTHER -> env.otherFlake

has_flake_nix(dir, t, env) ==
    CASE dir = "etc" -> t.exists /\ t.flake
      [] dir = "repo" -> TRUE
      [] OTHER -> env.otherFlake

\* variant: the configuration is returned although an error was found
compute_config_ErrorIgnored(args, env, t) ==
    LET flake_dir == flake_dir_of(args)
        sync_etc_nixos ==
            IF args.sync = "none"
            THEN (~args.dev) /\ flake_dir = "etc"
            ELSE args.sync = "yes"
        \* the exception compute_config raises; the other fields keep what
        \* the arguments ask for also when it raises
        error ==
            IF ~env.repoFound THEN "repo_root"
            ELSE IF ~(args.hostname \/ env.hostFile) THEN "hostname"
            ELSE IF ~has_flake_nix(flake_dir, t, env) THEN "flake"
            ELSE "none"
    IN  [ok |-> TRUE, error |-> error, flake_dir |-> flake_dir,
         sync_etc_nixos |-> sync_etc_nixos,
         sync_checkout |-> args.sync_checkout,
         use_mirror |-> args.mirror,
         offline_ok |-> args.offline_ok]

compute_config(args, env, t) ==
    LET flake_dir == flake_dir_of(args)
        sync_etc_nixos ==
            IF args.sync = "none"
            THEN (~args.dev) /\ flake_dir = "etc"
            ELSE args.sync = "yes"
        \* the exception compute_config raises; the other fields keep what
        \* the arguments ask for also when it raises
        error ==
            IF ~env.repoFound THEN "repo_root"
            ELSE IF ~(args.hostname \/ env.hostFile) THEN "hostname"
            ELSE IF ~has_flake_nix(flake_dir, t, env) THEN "flake"
            ELSE "none"
    IN  [ok |-> error = "none", error |-> error, flake_dir |-> flake_dir,
         sync_etc_nixos |-> sync_etc_nixos,
         sync_checkout |-> args.sync_checkout,
         use_mirror |-> args.mirror,
         offline_ok |-> args.offline_ok]

\* ------------------------------------------------------------ git outcomes
\* `git merge --ff-only <ref>` in a checkout whose HEAD is main-line commit
\* t.head (plus local commits when t.diverged): nothing to do when the ref is
\* an ancestor of HEAD, refusal when HEAD has commits the ref lacks.
CanFastForward(t, ref) == ref <= t.head \/ ~t.diverged

MergeFF(t, ref) ==
    IF ref <= t.head THEN t ELSE [t EXCEPT !.head = ref]

\* the exit codes a merge of ref into t can produce
MergeCodes(t, ref) ==
    IF t.git /\ CanFastForward(t, ref) THEN ExitCodes ELSE ExitCodes \ {0}

\* the exit codes a git command run inside t can produce
GitCodes(t) == IF t.git THEN ExitCodes ELSE ExitCodes \ {0}

RemoteHead(origin, mHead, uHead) ==
    IF origin = "mirror" THEN mHead ELSE uHead

\* ------------------------------------------------------------- operations
\* a subprocess that was started, and the exit code it returned
Call(c, r) == [cmd |-> c, rc |-> r]

\* each returns the exit code, the state it leaves and the subprocesses run
\* variant: the mirror is cloned without looking whether it exists
ensure_mirror_AlwaysClone(m, urlHead, mkdirOk, cloneRc) ==
    IF ~mkdirOk
    THEN [rc |-> None, raised |-> TRUE, mirror |-> m, calls |-> <<>>]
    ELSE [rc |-> cloneRc, raised |-> FALSE,
          mirror |-> IF cloneRc = 0
                     THEN [exists |-> TRUE, head |-> urlHead] ELSE m,
          calls |-> <<Call("git clone --mirror", cloneRc)>>]

ensure_mirror(m, urlHead, mkdirOk, cloneRc) ==
    IF m.exists
    THEN [rc |-> 0, raised |-> FALSE, mirror |-> m, calls |-> <<>>]
    ELSE IF ~mkdirOk
    THEN [rc |-> None, raised |-> TRUE, mirror |-> m, calls |-> <<>>]
    ELSE [rc |-> cloneRc, raised |-> FALSE,
          mirror |-> IF cloneRc = 0
                     THEN [exists |-> TRUE, head |-> urlHead] ELSE m,
          calls |-> <<Call("git clone --mirror", cloneRc)>>]

mirror_fetch(m, uHead, fetchRc) ==
    [rc |-> fetchRc,
     mirror |-> IF fetchRc = 0 THEN [m EXCEPT !.head = uHead] ELSE m,
     calls |-> <<Call("git fetch mirror", fetchRc)>>]

\* variant: a directory that exists is refused even when it is a checkout
root_ensure_etc_nixos_clone_NoShortCut(m, t, cloneRc) ==
    IF t.exists
    THEN [rc |-> 1, target |-> t, calls |-> <<>>]
    ELSE [rc |-> cloneRc, target |-> t,
          calls |-> <<Call("sudo git clone", cloneRc)>>]

root_ensure_etc_nixos_clone(m, t, cloneRc) ==
    IF IsValidCheckout(t)
    THEN [rc |-> 0, target |-> t, calls |-> <<>>]
    ELSE IF t.exists
    THEN [rc |-> 1, target |-> t, calls |-> <<>>]
    ELSE [rc |-> cloneRc,
          target |-> IF cloneRc = 0
                     THEN [exists |-> TRUE, flake |-> TRUE, git |-> TRUE,
                           origin |-> "mirror", head |-> m.head,
                           diverged |-> FALSE, dirty |-> FALSE]
                     ELSE t,
          calls |-> <<Call("sudo git clone", cloneRc)>>]

\* variant: the merge is attempted whatever the fetch returned
root_update_from_mirror_MergeAnyway(t, m, uHead, fetchRc, mergeRc) ==
    LET ref == RemoteHead(t.origin, m.head, uHead)
    IN  [rc |-> mergeRc,
         target |-> IF mergeRc = 0 THEN MergeFF(t, ref) ELSE t,
         contacted |-> {t.origin},
         calls |-> <<Call("sudo git fetch", fetchRc),
                     Call("sudo git merge --ff-only", mergeRc)>>]

root_update_from_mirror(t, m, uHead, fetchRc, mergeRc) ==
    LET ref == RemoteHead(t.origin, m.head, uHead)
    IN  IF fetchRc # 0
        THEN [rc |-> fetchRc, target |-> t, contacted |-> {t.origin},
              calls |-> <<Call("sudo git fetch", fetchRc)>>]
        ELSE [rc |-> mergeRc,
              target |-> IF mergeRc = 0 THEN MergeFF(t, ref) ELSE t,
              contacted |-> {t.origin},
              calls |-> <<Call("sudo git fetch", fetchRc),
                          Call("sudo git merge --ff-only", mergeRc)>>]

\* `git rev-parse --verify refs/heads/main` in the unprivileged checkout
RevParseCodes(dev) == IF dev # NoCommit THEN ExitCodes ELSE ExitCodes \ {0}

\* a push without --force of dev to refs/heads/main of the mirror is accepted
\* only when the branch exists and the mirror's ref is an ancestor of it
PushCodes(dev, m) ==
    IF dev # NoCommit /\ m.exists /\ m.head <= dev
    THEN ExitCodes ELSE ExitCodes \ {0}

\* variant: origin is rewritten without comparing it to the mirror path
root_set_origin_to_mirror_AlwaysSet(t, getRc, setRc) ==
    IF getRc # 0
    THEN [rc |-> getRc, target |-> t,
          calls |-> <<Call("sudo git remote get-url", getRc)>>]
    ELSE [rc |-> setRc,
          target |-> IF setRc = 0 THEN [t EXCEPT !.origin = "mirror"] ELSE t,
          calls |-> <<Call("sudo git remote get-url", getRc),
                      Call("sudo git remote set-url", setRc)>>]

root_set_origin_to_mirror(t, getRc, setRc) ==
    IF getRc # 0
    THEN [rc |-> getRc, target |-> t,
          calls |-> <<Call("sudo git remote get-url", getRc)>>]
    ELSE IF t.origin = "mirror"
    THEN [rc |-> 0, target |-> t,
          calls |-> <<Call("sudo git remote get-url", getRc)>>]
    ELSE [rc |-> setRc,
          target |-> IF setRc = 0 THEN [t EXCEPT !.origin = "mirror"] ELSE t,
          calls |-> <<Call("sudo git remote get-url", getRc),
                      Call("sudo git remote set-url", setRc)>>]

\* variant: the branch is pushed without being verified first
mirror_push_from_dev_NoVerify(dev, m, revRc, pushRc) ==
    [rc |-> pushRc,
     mirror |-> IF pushRc = 0 THEN [m EXCEPT !.head = dev] ELSE m,
     calls |-> <<Call("git push refs/heads/main:refs/heads/main", pushRc)>>]

mirror_push_from_dev(dev, m, revRc, pushRc) ==
    IF revRc # 0
    THEN [rc |-> revRc, mirror |-> m,
          calls |-> <<Call("git rev-parse --verify", revRc)>>]
    ELSE [rc |-> pushRc,
          mirror |-> IF pushRc = 0 THEN [m EXCEPT !.head = dev] ELSE m,
          calls |-> <<Call("git rev-parse --verify", revRc),
                      Call("git push refs/heads/main:refs/heads/main",
                           pushRc)>>]

\* outcomes of the subprocesses of sync_worktree
WorktreeOutcomes(t, uHead) ==
    {o \in [listRc : ExitCodes, porcRc : ExitCodes, registered : BOOLEAN,
            fetchRc : ExitCodes, statusRc : ExitCodes, mergeRc : ExitCodes] :
        /\ o.statusRc \in GitCodes(t)
        /\ o.mergeRc \in MergeCodes(t, uHead)}

\* variant: a dirty working tree does not stop the sync
sync_worktree_IgnoresDirty(t, uHead, update_checkout, o) ==
    LET c1 == <<Call("git worktree list", o.listRc)>>
        c2 == Append(c1, Call("git worktree list --porcelain", o.porcRc))
        c3 == Append(c2, Call("git fetch repo", o.fetchRc))
        c4 == Append(c3, Call("git status", o.statusRc))
        c5 == Append(c4, Call("sudo git merge --ff-only", o.mergeRc))
        R(rc, tgt, cs, f) ==
            [rc |-> rc, target |-> tgt, calls |-> cs, fetched |-> f]
    IN  IF o.listRc # 0 THEN R(0, t, c1, FALSE)
        ELSE IF o.porcRc # 0 THEN R(o.porcRc, t, c2, FALSE)
        ELSE IF ~o.registered THEN R(0, t, c2, FALSE)
        ELSE IF o.fetchRc # 0 THEN R(o.fetchRc, t, c3, FALSE)
        ELSE IF o.statusRc # 0 THEN R(o.statusRc, t, c4, TRUE)
        ELSE IF ~update_checkout THEN R(0, t, c4, TRUE)
        ELSE R(o.mergeRc,
               IF o.mergeRc = 0 THEN MergeFF(t, uHead) ELSE t, c5, TRUE)

sync_worktree(t, uHead, update_checkout, o) ==
    LET c1 == <<Call("git worktree list", o.listRc)>>
        c2 == Append(c1, Call("git worktree list --porcelain", o.porcRc))
        c3 == Append(c2, Call("git fetch repo", o.fetchRc))
        c4 == Append(c3, Call("git status", o.statusRc))
        c5 == Append(c4, Call("sudo git merge --ff-only", o.mergeRc))
        R(rc, tgt, cs, f) ==
            [rc |-> rc, target |-> tgt, calls |-> cs, fetched |-> f]
    IN  IF o.listRc # 0 THEN R(0, t, c1, FALSE)
        ELSE IF o.porcRc # 0 THEN R(o.porcRc, t, c2, FALSE)
        ELSE IF ~o.registered THEN R(0, t, c2, FALSE)
        ELSE IF o.fetchRc # 0 THEN R(o.fetchRc, t, c3, FALSE)
        ELSE IF o.statusRc # 0 THEN R(o.statusRc, t, c4, TRUE)
        ELSE IF t.dirty THEN R(1, t, c4, TRUE)
        ELSE IF ~update_checkout THEN R(0, t, c4, TRUE)
        ELSE R(o.mergeRc,
               IF o.mergeRc = 0 THEN MergeFF(t, uHead) ELSE t, c5, TRUE)

\* ------------------------------------------------------------ escalation
\* the nixos-rebuild command line without its --flake argument
build_nixos_rebuild_command == <<"nixos-rebuild", "switch">>

\* variant: sudo is prefixed whoever runs the command
build_exec_command_AlwaysSudo(cmd, uid) == <<"sudo">> \o cmd

build_exec_command(cmd, uid) ==
    IF uid = 0 THEN cmd ELSE <<"sudo">> \o cmd

\* the commands that act on root-owned state
PrivilegedCmds ==
    {"sudo git clone", "sudo git fetch", "sudo git merge --ff-only",
     "exec nixos-rebuild"}

\* the argv the code builds for a subprocess (paths and refs left out) when the
\* effective user id is uid
Argv(c, uid) ==
    CASE c = "exec nixos-rebuild" ->
             build_exec_command(build_nixos_rebuild_command, uid)
      [] c = "sudo git clone" -> <<"sudo", "git", "clone">>
      [] c = "sudo git fetch" -> <<"sudo", "git", "fetch", "--prune", "origin">>
      [] c = "sudo git merge --ff-only" ->
             <<"sudo", "git", "merge", "--ff-only">>
      [] OTHER -> <<"git">>

\* ------------------------------------------------------------------- main
\* effective user ids: root and an ordinary user
Euids == {0, 1000}

\* no second invocation is running
NoPeer == [pc |-> "none", result |-> None]

Step(n, r) == [name |-> n, rc |-> r]

Return(r) == pc' = "done" /\ result' = r

Init ==
    /\ pc = "start"
    /\ cfg = NoCfg
    /\ mirror \in MirrorStates
    /\ target \in TargetStates
    /\ upstreamHead \in Commits
    /\ devHead \in Commits
    /\ repoFetched = FALSE
    /\ upstream = "unset"
    /\ steps = <<>>
    /\ calls = <<>>
    /\ rootContacted = {}
    /\ result = None
    /\ euid = None
    /\ peer = NoPeer
    /\ arg = None
    /\ ret = None

\* variant: the sync branch is taken for any configuration directory
MainConfig_SyncAnyDir ==
    /\ pc = "start"
    /\ \E args \in ArgsSet, env \in EnvSet :
        LET c == compute_config(args, env, target)
        IN  /\ cfg' = c
            /\ steps' = Append(steps, Step("compute_config",
                                           IF c.ok THEN 0 ELSE 1))
            /\ IF ~c.ok THEN Return(1)
               ELSE /\ result' = result
                    /\ pc' = IF c.sync_etc_nixos
                             THEN IF c.use_mirror THEN "origin"
                                  ELSE "sync_worktree"
                             ELSE "build"
    /\ UNCHANGED <<euid, peer, arg, ret,
                   mirror, target, upstreamHead, devHead, repoFetched,
                   upstream, calls, rootContacted>>

\* variant: the sync branch ignores use_mirror
MainConfig_AlwaysMirror ==
    /\ pc = "start"
    /\ \E args \in ArgsSet, env \in EnvSet :
        LET c == compute_config(args, env, target)
        IN  /\ cfg' = c
            /\ steps' = Append(steps, Step("compute_config",
                                           IF c.ok THEN 0 ELSE 1))
            /\ IF ~c.ok THEN Return(1)
               ELSE /\ result' = result
                    /\ pc' = IF c.sync_etc_nixos /\ c.flake_dir = "etc"
                             THEN "origin"
                             ELSE "build"
    /\ UNCHANGED <<euid, peer, arg, ret,
                   mirror, target, upstreamHead, devHead, repoFetched,
                   upstream, calls, rootContacted>>

\* parse_args and compute_config, and the choice of the sync branch
MainConfig ==
    /\ pc = "start"
    /\ \E args \in ArgsSet, env \in EnvSet :
        LET c == compute_config(args, env, target)
        IN  /\ cfg' = c
            /\ steps' = Append(steps, Step("compute_config",
                                           IF c.ok THEN 0 ELSE 1))
            /\ IF ~c.ok THEN Return(1)
               ELSE /\ result' = result
                    /\ pc' = IF c.sync_etc_nixos /\ c.flake_dir = "etc"
                             THEN IF c.use_mirror THEN "origin"
                                  ELSE "sync_worktree"
                             ELSE "build"
    /\ UNCHANGED <<euid, peer, arg, ret,
                   mirror, target, upstreamHead, devHead, repoFetched,
                   upstream, calls, rootContacted>>

\* variant: only the exit code of the lookup is checked
MainOriginUrl_IgnoresEmpty ==
    /\ pc = "origin"
    /\ \E rc \in ExitCodes, empty \in BOOLEAN :
        /\ steps' = Append(steps, Step("origin_url", rc))
        /\ calls' = Append(calls, Call("git remote get-url", rc))
        /\ upstream' = IF empty THEN "" ELSE "url"
        /\ IF rc # 0 THEN Return(1)
           ELSE pc' = "ensure_mirror" /\ result' = result
    /\ UNCHANGED <<euid, peer, arg, ret,
                   cfg, mirror, target, upstreamHead, devHead, repoFetched,
                   rootContacted>>

\* git -C repo_root remote get-url origin
MainOriginUrl ==
    /\ pc = "origin"
    /\ \E rc \in ExitCodes, empty \in BOOLEAN :
        /\ steps' = Append(steps, Step("origin_url", rc))
        /\ calls' = Append(calls, Call("git remote get-url", rc))
        /\ upstream' = IF empty THEN "" ELSE "url"
        /\ IF rc # 0 \/ empty THEN Return(1)
           ELSE pc' = "ensure_mirror" /\ result' = result
    /\ UNCHANGED <<euid, peer, arg, ret,
                   cfg, mirror, target, upstreamHead, devHead, repoFetched,
                   rootContacted>>

\* variant: a failed mirror clone is tolerated under offline_ok
MainEnsureMirror_Tolerant ==
    /\ pc = "ensure_mirror"
    /\ \E mkdirOk \in BOOLEAN, cloneRc \in ExitCodes :
        LET r == ensure_mirror(mirror, upstreamHead, mkdirOk, cloneRc)
        IN  /\ mirror' = r.mirror
            /\ calls' = calls \o r.calls
            /\ steps' = Append(steps, Step("ensure_mirror",
                                           IF r.raised THEN 1 ELSE r.rc))
            /\ IF r.raised THEN Return(1)
               ELSE IF r.rc # 0 /\ ~cfg.offline_ok THEN Return(r.rc)
               ELSE pc' = "mirror_fetch" /\ result' = result
    /\ UNCHANGED <<euid, peer, arg, ret,
                   cfg, target, upstreamHead, devHead, repoFetched,
                   upstream, rootContacted>>

MainEnsureMirror ==
    /\ pc = "ensure_mirror"
    /\ \E mkdirOk \in BOOLEAN, cloneRc \in ExitCodes :
        LET r == ensure_mirror(mirror, upstreamHead, mkdirOk, cloneRc)
        IN  /\ mirror' = r.mirror
            /\ calls' = calls \o r.calls
            /\ steps' = Append(steps, Step("ensure_mirror",
                                           IF r.raised THEN 1 ELSE r.rc))
            /\ IF r.raised THEN Return(1)
               ELSE IF r.rc # 0 THEN Return(r.rc)
               ELSE pc' = "mirror_fetch" /\ result' = result
    /\ UNCHANGED <<euid, peer, arg, ret,
                   cfg, target, upstreamHead, devHead, repoFetched,
                   upstream, rootContacted>>

\* variant: a fatal mirror fetch makes main return 1
MainMirrorFetch_ReturnsOne ==
    /\ pc = "mirror_fetch"
    /\ \E fetchRc \in ExitCodes :
        LET r == mirror_fetch(mirror, upstreamHead, fetchRc)
        IN  /\ mirror' = r.mirror
            /\ calls' = calls \o r.calls
            /\ steps' = Append(steps, Step("mirror_fetch", r.rc))
            /\ IF r.rc # 0 /\ ~cfg.offline_ok THEN Return(1)
               ELSE pc' = "ensure_clone" /\ result' = result
    /\ UNCHANGED <<euid, peer, arg, ret,
                   cfg, target, upstreamHead, devHead, repoFetched,
                   upstream, rootContacted>>

MainMirrorFetch ==
    /\ pc = "mirror_fetch"
    /\ \E fetchRc \in ExitCodes :
        LET r == mirror_fetch(mirror, upstreamHead, fetchRc)
        IN  /\ mirror' = r.mirror
            /\ calls' = calls \o r.calls
            /\ steps' = Append(steps, Step("mirror_fetch", r.rc))
            /\ IF r.rc # 0 /\ ~cfg.offline_ok THEN Return(r.rc)
               ELSE pc' = "ensure_clone" /\ result' = result
    /\ UNCHANGED <<euid, peer, arg, ret,
                   cfg, target, upstreamHead, devHead, repoFetched,
                   upstream, rootContacted>>

\* variant: a failed ensure-clone is tolerated under offline_ok
MainEnsureClone_Tolerant ==
    /\ pc = "ensure_clone"
    /\ \E cloneRc \in ExitCodes :
        LET r == root_ensure_etc_nixos_clone(mirror, target, cloneRc)
        IN  /\ target' = r.target
            /\ calls' = calls \o r.calls
            /\ steps' = Append(steps,
                               Step("root_ensure_etc_nixos_clone", r.rc))
            /\ IF r.rc # 0 /\ ~cfg.offline_ok THEN Return(r.rc)
               ELSE pc' = "update" /\ result' = result
    /\ UNCHANGED <<euid, peer, arg, ret,
                   cfg, mirror, upstreamHead, devHead, repoFetched,
                   upstream, rootContacted>>

MainEnsureClone ==
    /\ pc = "ensure_clone"
    /\ \E cloneRc \in ExitCodes :
        LET r == root_ensure_etc_nixos_clone(mirror, target, cloneRc)
        IN  /\ target' = r.target
            /\ calls' = calls \o r.calls
            /\ steps' = Append(steps,
                               Step("root_ensure_etc_nixos_clone", r.rc))
            /\ IF r.rc # 0 THEN Return(r.rc)
               ELSE pc' = "update" /\ result' = result
    /\ UNCHANGED <<euid, peer, arg, ret,
                   cfg, mirror, upstreamHead, devHead, repoFetched,
                   upstream, rootContacted>>

\* variant: a failed update is fatal whatever offline_ok is
MainUpdate_AlwaysHard ==
    /\ pc = "update"
    /\ \E fetchRc \in GitCodes(target) :
        \E mergeRc \in MergeCodes(target, RemoteHead(target.origin,
                                                     mirror.head,
                                                     upstreamHead)) :
        LET r == root_update_from_mirror(target, mirror, upstreamHead,
                                         fetchRc, mergeRc)
        IN  /\ target' = r.target
            /\ calls' = calls \o r.calls
            /\ rootContacted' = rootContacted \cup r.contacted
            /\ steps' = Append(steps, Step("root_update_from_mirror", r.rc))
            /\ IF r.rc # 0 THEN Return(r.rc)
               ELSE pc' = "build" /\ result' = result
    /\ UNCHANGED <<euid, peer, arg, ret,
                   cfg, mirror, upstreamHead, devHead, repoFetched,
                   upstream>>

MainUpdate ==
    /\ pc = "update"
    /\ \E fetchRc \in GitCodes(target) :
        \E mergeRc \in MergeCodes(target, RemoteHead(target.origin,
                                                     mirror.head,
                                                     upstreamHead)) :
        LET r == root_update_from_mirror(target, mirror, upstreamHead,
                                         fetchRc, mergeRc)
        IN  /\ target' = r.target
            /\ calls' = calls \o r.calls
            /\ rootContacted' = rootContacted \cup r.contacted
            /\ steps' = Append(steps, Step("root_update_from_mirror", r.rc))
            /\ IF r.rc # 0 /\ ~cfg.offline_ok THEN Return(r.rc)
               ELSE pc' = "build" /\ result' = result
    /\ UNCHANGED <<euid, peer, arg, ret,
                   cfg, mirror, upstreamHead, devHead, repoFetched,
                   upstream>>

MainSyncWorktree ==
    /\ pc = "sync_worktree"
    /\ \E o \in WorktreeOutcomes(target, upstreamHead) :
        LET r == sync_worktree(target, upstreamHead, cfg.sync_checkout, o)
        IN  /\ target' = r.target
            /\ calls' = calls \o r.calls
            /\ repoFetched' = r.fetched
            /\ steps' = Append(steps, Step("sync_worktree", r.rc))
            /\ IF r.rc # 0 THEN Return(r.rc)
               ELSE pc' = "build" /\ result' = result
    /\ UNCHANGED <<euid, peer, arg, ret,
                   cfg, mirror, upstreamHead, devHead, upstream,
                   rootContacted>>

\* build_nixos_rebuild_command, build_exec_command and runner.exec
MainExec ==
    /\ pc = "build"
    /\ \E uid \in Euids : euid' = uid
    /\ calls' = Append(calls, Call("exec nixos-rebuild", 0))
    /\ steps' = Append(steps, Step("exec", 0))
    /\ Return(0)
    /\ UNCHANGED <<peer, arg, ret,
                   cfg, mirror, target, upstreamHead, devHead, repoFetched,
                   upstream, rootContacted>>

Next ==
    \/ MainConfig
    \/ MainOriginUrl
    \/ MainEnsureMirror
    \/ MainMirrorFetch
    \/ MainEnsureClone
    \/ MainUpdate
    \/ MainSyncWorktree
    \/ MainExec

Spec == Init /\ [][Next]_vars

\* ------------------------------------------- the two operations on their own
\* root_set_origin_to_mirror and mirror_push_from_dev called in any order, up
\* to MaxOps times, on a checkout of either origin and a developer checkout
\* with or without the branch
InitOps ==
    /\ pc = "ops"
    /\ cfg = NoCfg
    /\ mirror \in MirrorStates
    /\ target \in ValidTargets
    /\ upstreamHead = 0
    /\ devHead \in Commits \cup {NoCommit}
    /\ repoFetched = FALSE
    /\ upstream = "unset"
    /\ steps = <<>>
    /\ calls = <<>>
    /\ rootContacted = {}
    /\ result = None
    /\ euid = None
    /\ peer = NoPeer
    /\ arg = None
    /\ ret = None

OpRetarget ==
    /\ pc = "ops"
    /\ Len(steps) < MaxOps
    /\ \E getRc \in GitCodes(target), setRc \in GitCodes(target) :
        LET r == root_set_origin_to_mirror(target, getRc, setRc)
        IN  /\ target' = r.target
            /\ calls' = calls \o r.calls
            /\ steps' = Append(steps, Step("root_set_origin_to_mirror", r.rc))
    /\ UNCHANGED <<pc, cfg, mirror, upstreamHead, devHead, repoFetched,
                   upstream, rootContacted, result, euid, peer,
                   arg, ret>>

OpPush ==
    /\ pc = "ops"
    /\ Len(steps) < MaxOps
    /\ \E revRc \in RevParseCodes(devHead),
          pushRc \in PushCodes(devHead, mirror) :
        LET r == mirror_push_from_dev(devHead, mirror, revRc, pushRc)
        IN  /\ mirror' = r.mirror
            /\ calls' = calls \o r.calls
            /\ steps' = Append(steps, Step("mirror_push_from_dev", r.rc))
    /\ UNCHANGED <<pc, cfg, target, upstreamHead, devHead, repoFetched,
                   upstream, rootContacted, result, euid, peer,
                   arg, ret>>

NextOps ==
    \/ OpRetarget
    \/ OpPush

SpecOps == InitOps /\ [][NextOps]_vars

\* ------------------------------------------ the lifecycle of /etc/nixos
\* root_ensure_etc_nixos_clone then root_update_from_mirror on any state of
\* the directory, with the process interrupted at any point between two
\* subprocesses
InitLifecycle ==
    /\ pc = "ensure_clone"
    /\ cfg = NoCfg
    /\ mirror \in MirrorStates \ {AbsentMirror}
    /\ target \in TargetStates
    /\ upstreamHead \in Commits
    /\ devHead = 0
    /\ repoFetched = FALSE
    /\ upstream = "unset"
    /\ steps = <<>>
    /\ calls = <<>>
    /\ rootContacted = {}
    /\ result = None
    /\ euid = None
    /\ peer = NoPeer
    /\ arg = None
    /\ ret = None

\* variant: a clone that fails leaves the directory it had started to fill
LifeEnsureClone_Partial ==
    /\ pc = "ensure_clone"
    /\ \E cloneRc \in ExitCodes :
        LET r == root_ensure_etc_nixos_clone(mirror, target, cloneRc)
        IN  /\ target' = IF r.calls # <<>> /\ r.rc # 0
                         THEN [target EXCEPT !.exists = TRUE, !.flake = TRUE,
                                             !.git = TRUE]
                         ELSE r.target
            /\ calls' = calls \o r.calls
            /\ steps' = Append(steps,
                               Step("root_ensure_etc_nixos_clone", r.rc))
            /\ IF r.rc # 0 THEN Return(r.rc)
               ELSE pc' = "update" /\ result' = result
    /\ UNCHANGED <<euid, peer, arg, ret, cfg, mirror, upstreamHead, devHead,
                   repoFetched, upstream, rootContacted>>

LifeEnsureClone ==
    /\ pc = "ensure_clone"
    /\ \E cloneRc \in ExitCodes :
        LET r == root_ensure_etc_nixos_clone(mirror, target, cloneRc)
        IN  /\ target' = r.target
            /\ calls' = calls \o r.calls
            /\ steps' = Append(steps,
                               Step("root_ensure_etc_nixos_clone", r.rc))
            /\ IF r.rc # 0 THEN Return(r.rc)
               ELSE pc' = "update" /\ result' = result
    /\ UNCHANGED <<euid, peer, arg, ret, cfg, mirror, upstreamHead, devHead,
                   repoFetched, upstream, rootContacted>>

LifeUpdate ==
    /\ pc = "update"
    /\ \E fetchRc \in GitCodes(target) :
        \E mergeRc \in MergeCodes(target, RemoteHead(target.origin,
                                                     mirror.head,
                                                     upstreamHead)) :
        LET r == root_update_from_mirror(target, mirror, upstreamHead,
                                         fetchRc, mergeRc)
        IN  /\ target' = r.target
            /\ calls' = calls \o r.calls
            /\ rootContacted' = rootContacted \cup r.contacted
            /\ steps' = Append(steps, Step("root_update_from_mirror", r.rc))
            /\ Return(r.rc)
    /\ UNCHANGED <<euid, peer, arg, ret, cfg, mirror, upstreamHead, devHead,
                   repoFetched, upstream>>

\* the process is killed between root_ensure_etc_nixos_clone and
\* root_update_from_mirror, or before either
Interrupt ==
    /\ pc \in {"ensure_clone", "update"}
    /\ pc' = "interrupted"
    /\ UNCHANGED <<cfg, mirror, target, upstreamHead, devHead, repoFetched,
                   upstream, steps, calls, rootContacted, result, euid, peer,
                   arg, ret>>

\* the process is killed inside root_update_from_mirror, after the fetch
\* has returned and before the merge is started
InterruptAfterFetch ==
    /\ pc = "update"
    /\ \E fetchRc \in GitCodes(target) :
        /\ fetchRc = 0
        /\ calls' = Append(calls, Call("sudo git fetch", fetchRc))
    /\ rootContacted' = rootContacted \cup {target.origin}
    /\ pc' = "interrupted"
    /\ UNCHANGED <<cfg, mirror, target, upstreamHead, devHead, repoFetched,
                   upstream, steps, result, euid, peer,
                   arg, ret>>

NextLifecycle ==
    \/ LifeEnsureClone
    \/ LifeUpdate
    \/ Interrupt
    \/ InterruptAfterFetch

SpecLifecycle == InitLifecycle /\ [][NextLifecycle]_vars

\* ------------------------------------------------- two invocations at once
\* main past compute_config and origin_url in mirror mode, and a second
\* invocation (peer) running ensure_mirror on the same mirror directory; the
\* peer's ensure_mirror is taken one system call at a time
MirrorCfgs ==
    {[ok |-> TRUE, error |-> "none", flake_dir |-> "etc",
      sync_etc_nixos |-> TRUE, sync_checkout |-> FALSE,
      use_mirror |-> TRUE, offline_ok |-> off] : off \in BOOLEAN}

\* the directory `git clone --mirror` has created and is still filling
PartialMirror == [exists |-> TRUE, head |-> NoCommit]

InitConc ==
    /\ pc = "ensure_mirror"
    /\ cfg \in MirrorCfgs
    /\ mirror \in MirrorStates
    /\ target \in ValidTargets \cup {ForeignTarget}
    /\ upstreamHead \in Commits
    /\ devHead = 0
    /\ repoFetched = FALSE
    /\ upstream = "url"
    /\ steps = <<Step("compute_config", 0), Step("origin_url", 0)>>
    /\ calls = <<Call("git remote get-url", 0)>>
    /\ rootContacted = {}
    /\ result = None
    /\ euid = None
    /\ peer = [pc |-> "start", result |-> None]
    /\ arg = None
    /\ ret = None

PeerUnchanged ==
    UNCHANGED <<pc, cfg, target, upstreamHead, devHead, repoFetched, upstream,
                steps, calls, rootContacted, result, euid, arg, ret>>

\* `if mirror_dir.exists(): return 0`
PeerCheck ==
    /\ peer.pc = "start"
    /\ peer' = [peer EXCEPT !.pc = IF mirror.exists THEN "ensured"
                                   ELSE "checked"]
    /\ mirror' = mirror
    /\ PeerUnchanged

\* `git clone --mirror` starts: it refuses a directory that is there by now,
\* and creates it otherwise
PeerBeginClone ==
    /\ peer.pc = "checked"
    /\ IF mirror.exists
       THEN /\ \E rc \in ExitCodes \ {0} :
                  peer' = [pc |-> "done", result |-> rc]
            /\ mirror' = mirror
       ELSE /\ peer' = [peer EXCEPT !.pc = "cloning"]
            /\ mirror' = PartialMirror
    /\ PeerUnchanged

\* `git clone --mirror` returns: the mirror is complete, or git has removed
\* the directory it created
PeerEndClone ==
    /\ peer.pc = "cloning"
    /\ \E rc \in ExitCodes :
        IF rc = 0
        THEN /\ mirror' = [exists |-> TRUE, head |-> upstreamHead]
             /\ peer' = [peer EXCEPT !.pc = "ensured"]
        ELSE /\ mirror' = AbsentMirror
             /\ peer' = [pc |-> "done", result |-> rc]
    /\ PeerUnchanged

NextConc ==
    \/ MainEnsureMirror
    \/ MainMirrorFetch
    \/ MainEnsureClone
    \/ MainUpdate
    \/ MainExec
    \/ PeerCheck
    \/ PeerBeginClone
    \/ PeerEndClone

SpecConc == InitConc /\ [][NextConc]_vars

\* -------------------------------------------------- locating the repo root
\* A chain is the list of directories above a path: level 0 is the path,
\* level 1 its parent, up to the filesystem root at level rootDepth, whose
\* parent is itself; marked holds the levels that have flake.nix and
\* scripts_py/.
FIND_UPWARDS_LIMIT == 8

NotFound == [found |-> FALSE, name |-> "none", level |-> None]

Chains(n) ==
    UNION {{[name |-> n, rootDepth |-> r, marked |-> m] :
               m \in SUBSET (1..r)} : r \in 1..MaxDepth}

ParentOf(level, chain) ==
    IF level >= chain.rootDepth THEN chain.rootDepth ELSE level + 1

has_markers(level, chain) ==
    level \in chain.marked /\ level <= chain.rootDepth

\* the level reached from the path by taking .parent hops times
Ancestor(hops, chain) ==
    IF hops >= chain.rootDepth THEN chain.rootDepth ELSE hops

\* Path.resolve(): the chain of the file a symlink leads to
resolve(path) == path.real

RECURSIVE find_upwards_from(_, _, _)
find_upwards_from(cur, left, chain) ==
    IF left = 0 THEN NotFound
    ELSE IF has_markers(cur, chain)
    THEN [found |-> TRUE, name |-> chain.name, level |-> cur]
    ELSE IF ParentOf(cur, chain) = cur THEN NotFound
    ELSE find_upwards_from(ParentOf(cur, chain), left - 1, chain)

\* find_upwards on a start that is already resolved
find_upwards(start, chain) ==
    find_upwards_from(start, FIND_UPWARDS_LIMIT, chain)

\* variant: the directory the search stops at is returned unvalidated
repo_root_from_script_path_Guess(path) ==
    LET chain == resolve(path)
        parent == ParentOf(0, chain)
        r1 == find_upwards(ParentOf(parent, chain), chain)
    IN  IF r1.found THEN r1
        ELSE [found |-> TRUE, name |-> chain.name, level |-> parent]

repo_root_from_script_path(path) ==
    LET chain == resolve(path)
        parent == ParentOf(0, chain)
        r1 == find_upwards(ParentOf(parent, chain), chain)
        r2 == find_upwards(parent, chain)
        r3 == find_upwards(0, chain)
    IN  IF r1.found THEN r1
        ELSE IF r2.found THEN r2
        ELSE IF r3.found THEN r3
        ELSE NotFound

\* script paths: a regular file, or a symlink in a directory of its own
\* (which may carry the markers) to a file elsewhere
ScriptPaths ==
    {[given |-> c, real |-> c] : c \in Chains("real")}
    \cup {[given |-> [name |-> "link", rootDepth |-> 1, marked |-> m],
           real |-> c] : m \in SUBSET {1}, c \in Chains("real")}

InitLocate ==
    /\ pc = "locate"
    /\ cfg = NoCfg
    /\ mirror = AbsentMirror
    /\ target = AbsentTarget
    /\ upstreamHead = 0
    /\ devHead = 0
    /\ repoFetched = FALSE
    /\ upstream = "unset"
    /\ steps = <<>>
    /\ calls = <<>>
    /\ rootContacted = {}
    /\ result = None
    /\ euid = None
    /\ peer = NoPeer
    /\ arg \in ScriptPaths
    /\ ret = None

LocateRoot ==
    /\ pc = "locate"
    /\ ret' = [root |-> repo_root_from_script_path(arg),
               up |-> [h \in 0..2 |->
                          find_upwards(Ancestor(h, resolve(arg)),
                                       resolve(arg))]]
    /\ pc' = "done"
    /\ UNCHANGED <<cfg, mirror, target, upstreamHead, devHead, repoFetched,
                   upstream, steps, calls, rootContacted, result, euid, peer,
                   arg>>

NextLocate ==
    \/ LocateRoot

SpecLocate == InitLocate /\ [][NextLocate]_vars

\* ---------------------------------------------------------- parse_args
\* tokens of an argument vector: a declared flag, two undeclared ones, a
\* word, and the separator
Tokens == {"--dev", "--nope", "-L", "host", "--"}

DeclaredFlags == {"--dev"}

\* tok.startswith("-")
StartsWithDash(tok) == tok \in {"--dev", "--nope", "-L", "--"}

Argvs == UNION {[1..n -> Tokens] : n \in 0..MaxArgs}

\* list(argv).index("--"), 0 when "--" is not in argv
SeparatorIndex(argv) ==
    IF \E i \in 1..Len(argv) : argv[i] = "--"
    THEN CHOOSE i \in 1..Len(argv) :
             argv[i] = "--" /\ \A j \in 1..(i - 1) : argv[j] # "--"
    ELSE 0

\* argparse's parse_known_args: declared flags are consumed, the first word
\* (or, failing that, the first token after "--") becomes hostname, and
\* everything else is handed back in order
RECURSIVE known_args_rest(_, _, _)
known_args_rest(toks, literal, hostTaken) ==
    IF toks = <<>> THEN <<>>
    ELSE LET t == Head(toks)
         IN  IF ~literal /\ t = "--"
             THEN known_args_rest(Tail(toks), TRUE, hostTaken)
             ELSE IF ~literal /\ t \in DeclaredFlags
             THEN known_args_rest(Tail(toks), literal, hostTaken)
             ELSE IF ~hostTaken /\ (literal \/ ~StartsWithDash(t))
             THEN known_args_rest(Tail(toks), literal, TRUE)
             ELSE <<t>> \o known_args_rest(Tail(toks), literal, hostTaken)

\* the argv main execs through build_exec_command: nixos-rebuild switch
\* --flake <dir>/.#<host> and then the passthrough tokens
apply_command(passthrough) ==
    build_nixos_rebuild_command \o <<"--flake", "flakeref">> \o passthrough

parse_args(argv) ==
    LET sep == SeparatorIndex(argv)
        before == IF sep = 0 THEN argv ELSE SubSeq(argv, 1, sep - 1)
        rest == known_args_rest(argv, FALSE, FALSE)
        error == sep = 0 /\ \E i \in 1..Len(rest) : StartsWithDash(rest[i])
        passthrough == IF sep = 0 THEN rest
                       ELSE SubSeq(argv, sep + 1, Len(argv))
    IN  [error |-> error,
         dev |-> \E i \in 1..Len(before) : before[i] = "--dev",
         rest |-> IF error THEN <<>> ELSE passthrough]

InitParse ==
    /\ pc = "parse_args"
    /\ cfg = NoCfg
    /\ mirror = AbsentMirror
    /\ target = AbsentTarget
    /\ upstreamHead = 0
    /\ devHead = 0
    /\ repoFetched = FALSE
    /\ upstream = "unset"
    /\ steps = <<>>
    /\ calls = <<>>
    /\ rootContacted = {}
    /\ result = None
    /\ euid = None
    /\ peer = NoPeer
    /\ arg \in Argvs
    /\ ret = None

\* parse_args, and build_nixos_rebuild_command on what it returned
ParseArgs ==
    /\ pc = "parse_args"
    /\ LET r == parse_args(arg)
       IN  ret' = [args |-> r,
                   cmd |-> IF r.error THEN <<>> ELSE apply_command(r.rest)]
    /\ pc' = "done"
    /\ UNCHANGED <<cfg, mirror, target, upstreamHead, devHead, repoFetched,
                   upstream, steps, calls, rootContacted, result, euid, peer,
                   arg>>

NextParse ==
    \/ ParseArgs

SpecParse == InitParse /\ [][NextParse]_vars

\* ------------------------------------------------ compute_config on its own
InitConfig ==
    /\ pc = "compute_config"
    /\ cfg = NoCfg
    /\ mirror = AbsentMirror
    /\ target \in {AbsentTarget, ForeignTarget}
    /\ upstreamHead = 0
    /\ devHead = 0
    /\ repoFetched = FALSE
    /\ upstream = "unset"
    /\ steps = <<>>
    /\ calls = <<>>
    /\ rootContacted = {}
    /\ result = None
    /\ euid = None
    /\ peer = NoPeer
    /\ arg \in [args : ArgsSet, env : EnvSet]
    /\ ret = None

ComputeConfig ==
    /\ pc = "compute_config"
    /\ ret' = compute_config(arg.args, arg.env, target)
    /\ pc' = "done"
    /\ UNCHANGED <<cfg, mirror, target, upstreamHead, devHead, repoFetched,
                   upstream, steps, calls, rootContacted, result, euid, peer,
                   arg>>

NextConfig ==
    \/ ComputeConfig

SpecConfig == InitConfig /\ [][NextConfig]_vars

\* ------------------------------------------- setup-links: process_mapping
\* target paths: a relative one, the three forbidden ones, a file under
\* /etc/nixos, a path with a `..` segment, and a path in the user's home
LinkTargets ==
    {"rel/x", "/", "/etc", "/etc/nixos", "/etc/nixos/configuration.nix",
     "/etc/nixos/../passwd", "/home/u/.config/x"}

\* --root-helper values; "none" is None
RootHelpers == {"none", "sudo", "doas", "sudo -n"}

\* one call of process_mapping: the mapping, what the filesystem says about
\* it, the helper, and the exit codes the runner would give rm and ln
MappingCalls ==
    [sourceExists : BOOLEAN, ownerUid : {0, 1000}, linked : BOOLEAN,
     target : LinkTargets, root_helper : RootHelpers,
     rmRc : ExitCodes, lnRc : ExitCodes]

\* variant: the files under /etc/nixos the tool once managed are listed
ROOT_MANAGED_ETC_NIXOS_PATHS_Listed == {"/etc/nixos/configuration.nix"}

ROOT_MANAGED_ETC_NIXOS_PATHS == {}

\* os.path.normpath
normpath(t) == IF t = "/etc/nixos/../passwd" THEN "/etc/passwd" ELSE t

is_safe_root_replace_target(t) ==
    IF t = "rel/x" THEN FALSE
    ELSE IF t \in {"/", "/etc", "/etc/nixos"} THEN FALSE
    ELSE IF t \notin ROOT_MANAGED_ETC_NIXOS_PATHS THEN FALSE
    ELSE IF normpath(t) # t THEN FALSE
    ELSE TRUE

\* the helper as argv words
helper_parts(h) ==
    CASE h = "sudo" -> <<"sudo">>
      [] h = "doas" -> <<"doas">>
      [] OTHER -> <<"sudo", "-n">>

build_root_helper_argv(h, t) ==
    helper_parts(h) \o <<"ln", "-sfn", "SOURCE", t>>

build_root_replace_then_link_argv(h, t) ==
    <<helper_parts(h) \o <<"rm", "-rf", "--", t>>,
      helper_parts(h) \o <<"ln", "-sfn", "SOURCE", t>>>>

\* rc, the commands given to the runner, and whether the link was made
\* in-process by link_user_owned
process_mapping(m) ==
    LET R(rc, cmds, byUser) ==
            [rc |-> rc, cmds |-> cmds, linkedByUser |-> byUser]
    IN  IF ~m.sourceExists THEN R(0, <<>>, FALSE)
        ELSE IF m.ownerUid = 0
        THEN IF m.linked THEN R(0, <<>>, FALSE)
             ELSE IF m.root_helper # "none"
             THEN IF is_safe_root_replace_target(m.target)
                  THEN R(IF m.rmRc > m.lnRc THEN m.rmRc ELSE m.lnRc,
                         build_root_replace_then_link_argv(m.root_helper,
                                                           m.target),
                         FALSE)
                  ELSE R(m.lnRc,
                         <<build_root_helper_argv(m.root_helper, m.target)>>,
                         FALSE)
             ELSE R(0, <<>>, FALSE)
        ELSE R(0, <<>>, TRUE)

InitLinks ==
    /\ pc = "process_mapping"
    /\ cfg = NoCfg
    /\ mirror = AbsentMirror
    /\ target = AbsentTarget
    /\ upstreamHead = 0
    /\ devHead = 0
    /\ repoFetched = FALSE
    /\ upstream = "unset"
    /\ steps = <<>>
    /\ calls = <<>>
    /\ rootContacted = {}
    /\ result = None
    /\ euid = None
    /\ peer = NoPeer
    /\ arg \in MappingCalls
    /\ ret = None

ProcessMapping ==
    /\ pc = "process_mapping"
    /\ ret' = process_mapping(arg)
    /\ pc' = "done"
    /\ UNCHANGED <<cfg, mirror, target, upstreamHead, devHead, repoFetched,
                   upstream, steps, calls, rootContacted, result, euid, peer,
                   arg>>

NextLinks ==
    \/ ProcessMapping

SpecLinks == InitLinks /\ [][NextLinks]_vars

\* ---------------------------------------------- import-dotfiles: copy_one
\* what is at a path: nothing, a file, a directory, a symlink to something
\* that exists, or a symlink to nothing
PathKinds == {"absent", "file", "dir", "link", "dangling"}

\* Path.exists() follows symlinks
path_exists(kind) == kind \in {"file", "dir", "link"}

is_symlink(kind) == kind \in {"link", "dangling"}

AbsentPath == [kind |-> "absent", content |-> "none"]

\* one call of copy_one: the source, the destination with what it holds, the
\* destination's parent, and whether the copy fails (before writing anything
\* or midway)
CopyCalls ==
    {c \in [src : PathKinds,
            dst : {AbsentPath} \cup
                  {[kind |-> k, content |-> "old"] :
                      k \in PathKinds \ {"absent"}},
            parent : {"dir", "absent", "file"},
            failure : {"none", "before", "midway"}] :
        c.parent # "dir" => c.dst = AbsentPath}

\* variant: the destination is not looked at before copying
copy_one_Overwrite(c) ==
    LET R(rc, raised, dst, parent) ==
            [rc |-> rc, raised |-> raised, dst |-> dst, parent |-> parent]
    IN  IF ~path_exists(c.src) /\ ~is_symlink(c.src)
        THEN R(0, FALSE, c.dst, c.parent)
        ELSE IF c.parent = "file" THEN R(None, TRUE, c.dst, c.parent)
        ELSE IF c.failure = "before" THEN R(1, FALSE, c.dst, "dir")
        ELSE IF c.failure = "midway"
        THEN R(1, FALSE, [kind |-> c.src, content |-> "partial"], "dir")
        ELSE R(0, FALSE, [kind |-> c.src, content |-> "new"], "dir")

\* rc (None when dst.parent.mkdir raised), and what is at the destination
\* and at its parent afterwards
copy_one(c) ==
    LET R(rc, raised, dst, parent) ==
            [rc |-> rc, raised |-> raised, dst |-> dst, parent |-> parent]
    IN  IF ~path_exists(c.src) /\ ~is_symlink(c.src)
        THEN R(0, FALSE, c.dst, c.parent)
        ELSE IF path_exists(c.dst.kind) \/ is_symlink(c.dst.kind)
        THEN R(0, FALSE, c.dst, c.parent)
        ELSE IF c.parent = "file" THEN R(None, TRUE, c.dst, c.parent)
        ELSE IF c.failure = "before" THEN R(1, FALSE, c.dst, "dir")
        ELSE IF c.failure = "midway"
        THEN R(1, FALSE, [kind |-> c.src, content |-> "partial"], "dir")
        ELSE R(0, FALSE, [kind |-> c.src, content |-> "new"], "dir")

InitCopy ==
    /\ pc = "copy_one"
    /\ cfg = NoCfg
    /\ mirror = AbsentMirror
    /\ target = AbsentTarget
    /\ upstreamHead = 0
    /\ devHead = 0
    /\ repoFetched = FALSE
    /\ upstream = "unset"
    /\ steps = <<>>
    /\ calls = <<>>
    /\ rootContacted = {}
    /\ result = None
    /\ euid = None
    /\ peer = NoPeer
    /\ arg \in CopyCalls
    /\ ret = None

CopyOne ==
    /\ pc = "copy_one"
    /\ ret' = copy_one(arg)
    /\ pc' = "done"
    /\ UNCHANGED <<cfg, mirror, target, upstreamHead, devHead, repoFetched,
                   upstream, steps, calls, rootContacted, result, euid, peer,
                   arg>>

NextCopy ==
    \/ CopyOne

SpecCopy == InitCopy /\ [][NextCopy]_vars

\* ------------------------------------------------ sync_worktree on its own
\* every directory state, ref, update_checkout setting and combination of
\* subprocess outcomes
WorktreeCalls ==
    {c \in [t : TargetStates, uHead : Commits, update_checkout : BOOLEAN,
            o : [listRc : ExitCodes, porcRc : ExitCodes,
                 registered : BOOLEAN, fetchRc : ExitCodes,
                 statusRc : ExitCodes, mergeRc : ExitCodes]] :
        c.o \in WorktreeOutcomes(c.t, c.uHead)}

InitWorktree ==
    /\ pc = "sync_worktree_call"
    /\ cfg = NoCfg
    /\ mirror = AbsentMirror
    /\ target = AbsentTarget
    /\ upstreamHead = 0
    /\ devHead = 0
    /\ repoFetched = FALSE
    /\ upstream = "unset"
    /\ steps = <<>>
    /\ calls = <<>>
    /\ rootContacted = {}
    /\ result = None
    /\ euid = None
    /\ peer = NoPeer
    /\ arg \in WorktreeCalls
    /\ ret = None

SyncWorktree ==
    /\ pc = "sync_worktree_call"
    /\ ret' = sync_worktree(arg.t, arg.uHead, arg.update_checkout, arg.o)
    /\ pc' = "done"
    /\ UNCHANGED <<cfg, mirror, target, upstreamHead, devHead, repoFetched,
                   upstream, steps, calls, rootContacted, result, euid, peer,
                   arg>>

NextWorktree ==
    \/ SyncWorktree

SpecWorktree == InitWorktree /\ [][NextWorktree]_vars

\* ---------------------------------------------------------- observations
\* the branch of main at rebuild.py:381-382 that runs the mirror pipeline
MirrorRun ==
    cfg.ok /\ cfg.sync_etc_nixos /\ cfg.flake_dir = "etc" /\ cfg.use_mirror

HasStep(n) == \E i \in 1..Len(steps) : steps[i].name = n

HasStepRc(n, r) == \E i \in 1..Len(steps) : steps[i] = Step(n, r)

Called(c) == \E i \in 1..Len(calls) : calls[i].cmd = c

Applied == Called("exec nixos-rebuild")

LastOf(s) == s[Len(s)]

StepNames == [i \in 1..Len(steps) |-> steps[i].name]

IsPrefix(s, t) == Len(s) <= Len(t) /\ \A i \in 1..Len(s) : s[i] = t[i]

\* subprocesses of the mirror pipeline before apply
MirrorModeCmds ==
    {"git remote get-url", "git clone --mirror", "git fetch mirror",
     "sudo git clone", "sudo git fetch"}

\* ------------------------------------------------------------------ claims

\* C1: in mirror mode the apply command is executed only after the
\* ensure-clone step has returned 0; when ensure-clone returns non-zero main
\* returns that code at once and the apply command is not executed, whatever
\* offline_ok is.
C1_ApplyOnlyAfterEnsureClone ==
    MirrorRun =>
        /\ \A j \in 1..Len(steps) :
              steps[j].name = "exec" =>
                \E i \in 1..(j - 1) :
                    steps[i] = Step("root_ensure_etc_nixos_clone", 0)
        /\ \A i \in 1..Len(steps) :
              (steps[i].name = "root_ensure_etc_nixos_clone"
                    /\ steps[i].rc # 0) =>
                /\ i = Len(steps)
                /\ pc = "done"
                /\ result = steps[i].rc
                /\ ~Applied

C1_Witness ==
    /\ MirrorRun
    /\ cfg.offline_ok
    /\ LastOf(steps) = Step("root_ensure_etc_nixos_clone", 1)
    /\ result = 1

\* C4: when root_update_from_mirror fails in mirror mode, main with
\* offline_ok continues to the apply command with the checkout as it was, and
\* main without offline_ok returns the step's exit code and never executes the
\* apply command.
C4_UpdateFailure ==
    [][/\ (pc = "update" /\ pc' # "update" /\ LastOf(steps').rc # 0) =>
            /\ target' = target
            /\ IF cfg.offline_ok
               THEN pc' = "build" /\ result' = None
               ELSE /\ pc' = "done"
                    /\ result' = LastOf(steps').rc
                    /\ ~Applied'
       /\ (pc = "build" /\ pc' # "build") => (Applied' /\ result' = 0)
       /\ (pc = "done") => (pc' = "done" /\ calls' = calls)]_vars

C4_Witness ==
    /\ MirrorRun
    /\ cfg.offline_ok
    /\ \E r \in ExitCodes \ {0} : HasStepRc("root_update_from_mirror", r)
    /\ Applied
    /\ result = 0

\* C5: when the origin URL of the unprivileged checkout cannot be read or is
\* empty, a mirror-mode run returns non-zero having started no subprocess
\* other than the lookup itself, whatever offline_ok is.
C5_NoUpstreamIsFatal ==
    (MirrorRun /\ HasStep("origin_url")
        /\ (steps[2].rc # 0 \/ upstream = "")) =>
        /\ pc = "done"
        /\ result # None /\ result # 0
        /\ Len(steps) = 2
        /\ calls = <<Call("git remote get-url", steps[2].rc)>>
        /\ ~Applied

C5_Witness ==
    /\ MirrorRun
    /\ cfg.offline_ok
    /\ HasStepRc("origin_url", 0)
    /\ upstream = ""
    /\ result = 1

\* C6: when ensure_mirror fails, main returns at once (the exit code of the
\* mirror clone when the clone ran) and starts no fetch, no target clone or
\* update and no apply, whatever offline_ok is; this only happens when the
\* mirror did not exist.
C6_MirrorCreateIsFatal ==
    \A i \in 1..Len(steps) :
        (steps[i].name = "ensure_mirror" /\ steps[i].rc # 0) =>
            /\ i = Len(steps)
            /\ pc = "done"
            /\ ~mirror.exists
            /\ result # None /\ result # 0
            /\ Called("git clone --mirror") =>
                    /\ LastOf(calls).cmd = "git clone --mirror"
                    /\ result = LastOf(calls).rc
            /\ \A c \in {"git fetch mirror", "sudo git clone", "sudo git fetch",
                          "sudo git merge --ff-only", "exec nixos-rebuild"} :
                    ~Called(c)

C6_Witness ==
    /\ MirrorRun
    /\ cfg.offline_ok
    /\ Called("git clone --mirror")
    /\ LastOf(calls) = Call("git clone --mirror", 2)
    /\ result = 2

\* C7 as stated: with the mirror disabled main starts no version-control
\* subprocess at all and goes straight to the apply command.
C7_NoVcsWhenMirrorDisabled ==
    (cfg.ok /\ ~cfg.use_mirror) =>
        \A i \in 1..Len(calls) : calls[i].cmd = "exec nixos-rebuild"

\* C7 (amended): with the mirror disabled main starts none of the mirror
\* pipeline's subprocesses; it goes straight to the apply command only when
\* the sync of /etc/nixos is off as well, and otherwise runs sync_worktree
\* first, whose privileged fast-forward merge needs sync_checkout, and
\* applies only after sync_worktree returned 0.
C7_MirrorDisabled ==
    (cfg.ok /\ ~cfg.use_mirror) =>
        /\ \A i \in 1..Len(calls) : calls[i].cmd \notin MirrorModeCmds
        /\ ~(cfg.sync_etc_nixos /\ cfg.flake_dir = "etc") =>
              /\ pc \in {"build", "done"}
              /\ \A i \in 1..Len(calls) : calls[i].cmd = "exec nixos-rebuild"
        /\ Called("sudo git merge --ff-only") =>
              cfg.sync_etc_nixos /\ cfg.flake_dir = "etc" /\ cfg.sync_checkout
        /\ (cfg.sync_etc_nixos /\ cfg.flake_dir = "etc" /\ Applied) =>
              HasStepRc("sync_worktree", 0)

C7_Witness ==
    /\ cfg.ok
    /\ ~cfg.use_mirror
    /\ Called("git fetch repo")
    /\ Called("sudo git merge --ff-only")
    /\ Applied

\* the step order of one mirror-mode run as the design gives it
DesignOrder ==
    <<"compute_config", "origin_url", "ensure_mirror", "mirror_fetch",
      "root_ensure_etc_nixos_clone", "root_set_origin_to_mirror",
      "root_update_from_mirror", "exec">>

\* C2: the steps of a mirror-mode run are taken in the order resolve URL,
\* mirror ensure, mirror fetch, ensure clone, retarget, fast-forward, apply,
\* each at most once, and nothing runs after a run that returned non-zero.
C2_FixedStepOrder ==
    MirrorRun =>
        /\ IsPrefix(StepNames, DesignOrder)
        /\ (pc = "done" /\ result # 0) => ~Applied

\* C3: a failed mirror fetch without offline_ok ends the run with the fetch's
\* exit code; with offline_ok main pushes the developer checkout's branch into
\* the mirror and goes on, so that a successful update leaves the target at
\* the developer checkout's commit.
C3_OfflineFetchRecovery ==
    MirrorRun =>
        \A i \in 1..Len(steps) :
            (steps[i].name = "mirror_fetch" /\ steps[i].rc # 0) =>
                IF ~cfg.offline_ok
                THEN /\ i = Len(steps)
                     /\ pc = "done"
                     /\ result = steps[i].rc
                     /\ ~Applied
                ELSE /\ Called("git push mirror")
                     /\ pc # "done" \/ HasStep("root_ensure_etc_nixos_clone")
                     /\ (/\ HasStepRc("root_update_from_mirror", 0)
                         /\ target.origin = "mirror"
                         /\ ~target.diverged) => target.head >= devHead

\* C8: ensure-clone on a directory with flake.nix but no .git keeps the
\* directory, starts a privileged rename to the backup path and then a
\* privileged clone, and returns 0 with a valid checkout when both succeed.
C8_ForeignMovedAside ==
    [][(/\ pc = "ensure_clone"
        /\ pc' # "ensure_clone"
        /\ target.exists /\ target.flake /\ ~target.git) =>
            /\ target'.exists
            /\ Len(calls') = Len(calls) + 2
            /\ calls'[Len(calls) + 1].cmd = "sudo mv"
            /\ calls'[Len(calls) + 2].cmd = "sudo git clone"
            /\ (calls'[Len(calls) + 1].rc = 0
                    /\ calls'[Len(calls) + 2].rc = 0) =>
                  /\ LastOf(steps') = Step("root_ensure_etc_nixos_clone", 0)
                  /\ IsValidCheckout(target')]_vars

\* C9: no privileged fetch ever contacts a remote other than the mirror.
C9_RootOnlyContactsMirror == rootContacted \subseteq {"mirror"}

\* C10: once ensure-clone (and the update, when main got that far) has run
\* with every subprocess succeeding, /etc/nixos is a valid checkout whose
\* origin is the mirror.
C10_LifecycleEndsValid ==
    (/\ MirrorRun
     /\ HasStep("root_ensure_etc_nixos_clone")
     /\ pc \in {"build", "done"}
     /\ \A i \in 1..Len(calls) : calls[i].rc = 0) =>
        /\ IsValidCheckout(target)
        /\ target.origin = "mirror"

\* the arguments ask for the mirror pipeline on /etc/nixos
MirrorPolicy ==
    cfg.sync_etc_nixos /\ cfg.flake_dir = "etc" /\ cfg.use_mirror

AllCallsOk == \A i \in 1..Len(calls) : calls[i].rc = 0

\* neither the mirror nor /etc/nixos existed when main started: nothing but
\* the two clones creates them
StartedFresh ==
    /\ mirror.exists => Called("git clone --mirror")
    /\ target.exists => Called("sudo git clone")

\* C11: on a fresh machine (no mirror, no /etc/nixos) a mirror-mode run
\* without offline_ok whose subprocesses all succeed ends with exit code 0,
\* having mirror-cloned the upstream, cloned /etc/nixos from the mirror,
\* updated it and executed the apply command.
C11_FreshMachineBootstraps ==
    (/\ pc = "done"
     /\ MirrorPolicy
     /\ ~cfg.offline_ok
     /\ cfg.error \notin {"repo_root", "hostname"}
     /\ StartedFresh
     /\ AllCallsOk) =>
        /\ result = 0
        /\ Called("git clone --mirror")
        /\ Called("sudo git clone")
        /\ HasStepRc("root_update_from_mirror", 0)
        /\ Applied

C13_DirtyTargetRefused ==
    (MirrorRun /\ ~cfg.offline_ok /\ target.dirty) =>
        /\ ~Applied
        /\ pc = "done" => result # 0

\* C14: root_ensure_etc_nixos_clone on a directory that has both .git and
\* flake.nix returns 0, starts no subprocess and changes nothing, and calling
\* it again in the state it left gives the same.
C14_EnsureCloneNoOp ==
    [][(pc = "ensure_clone" /\ pc' # "ensure_clone"
            /\ IsValidCheckout(target)) =>
        /\ LastOf(steps') = Step("root_ensure_etc_nixos_clone", 0)
        /\ calls' = calls
        /\ target' = target
        /\ mirror' = mirror
        /\ \A rc \in ExitCodes :
              root_ensure_etc_nixos_clone(mirror', target', rc)
                  = [rc |-> 0, target |-> target, calls |-> <<>>]]_vars

C14_Witness ==
    /\ pc = "update"
    /\ IsValidCheckout(target)
    /\ LastOf(steps) = Step("root_ensure_etc_nixos_clone", 0)

\* C15: ensure_mirror on an existing mirror returns 0 without creating a
\* directory or starting a clone, and after any ensure_mirror that returned 0
\* a second call is such a no-op.
C15_EnsureMirrorIdempotent ==
    [][(pc = "ensure_mirror" /\ pc' # "ensure_mirror") =>
        /\ mirror.exists =>
              /\ LastOf(steps') = Step("ensure_mirror", 0)
              /\ calls' = calls
              /\ mirror' = mirror
        /\ LastOf(steps').rc = 0 =>
              \A mk \in BOOLEAN, rc \in ExitCodes :
                  ensure_mirror(mirror', upstreamHead, mk, rc)
                      = [rc |-> 0, raised |-> FALSE, mirror |-> mirror',
                         calls |-> <<>>]]_vars

C15_Witness ==
    /\ pc = "mirror_fetch"
    /\ mirror.exists
    /\ Called("git clone --mirror")
    /\ LastOf(steps) = Step("ensure_mirror", 0)

\* the subprocesses the step just taken has started
NewCalls == SubSeq(calls', Len(calls) + 1, Len(calls'))

\* C16: root_set_origin_to_mirror reads origin first and rewrites it only
\* when it is not the mirror; after a call that returned 0 a second call whose
\* read succeeds returns 0 and changes nothing.
C16_RetargetIdempotent ==
    [][(Len(steps') = Len(steps) + 1
            /\ LastOf(steps').name = "root_set_origin_to_mirror") =>
        /\ NewCalls[1].cmd = "sudo git remote get-url"
        /\ \A i \in 2..Len(NewCalls) :
              /\ NewCalls[i].cmd = "sudo git remote set-url"
              /\ target.origin # "mirror"
        /\ target' # target => Len(NewCalls) = 2
        /\ LastOf(steps').rc = 0 =>
              /\ target'.origin = "mirror"
              /\ \A setRc \in ExitCodes :
                    root_set_origin_to_mirror(target', 0, setRc)
                        = [rc |-> 0, target |-> target',
                           calls |-> <<Call("sudo git remote get-url", 0)>>]]_vars

C16_Witness ==
    /\ Len(steps) = 2
    /\ steps[1] = Step("root_set_origin_to_mirror", 0)
    /\ steps[2] = Step("root_set_origin_to_mirror", 0)
    /\ Len(calls) = 3
    /\ calls[2] = Call("sudo git remote set-url", 0)
    /\ target.origin = "mirror"

\* C17: mirror_push_from_dev verifies the branch before anything else; when
\* the branch is missing it fails with no push and the mirror untouched, and
\* otherwise its only other subprocess is the push of refs/heads/main to
\* refs/heads/main without force, which never moves the mirror backwards.
C17_PushVerifiesBranch ==
    [][(Len(steps') = Len(steps) + 1
            /\ LastOf(steps').name = "mirror_push_from_dev") =>
        /\ NewCalls[1].cmd = "git rev-parse --verify"
        /\ devHead = NoCommit =>
              /\ LastOf(steps').rc # 0
              /\ Len(NewCalls) = 1
              /\ mirror' = mirror
        /\ \A i \in 2..Len(NewCalls) :
              NewCalls[i].cmd = "git push refs/heads/main:refs/heads/main"
        /\ Len(NewCalls) <= 2
        /\ mirror' # mirror =>
              /\ mirror.head < devHead
              /\ mirror' = [mirror EXCEPT !.head = devHead]]_vars

C17_Witness ==
    /\ Len(steps) >= 1 /\ Len(calls) >= 2
    /\ steps[1] = Step("mirror_push_from_dev", 0)
    /\ calls[1] = Call("git rev-parse --verify", 0)
    /\ calls[2] = Call("git push refs/heads/main:refs/heads/main", 0)
    /\ mirror.head = devHead

C19_ContentionFailsLoudly ==
    [][/\ (pc = "ensure_mirror" /\ pc' = "mirror_fetch") =>
              mirror # PartialMirror
       /\ (peer.pc = "checked" /\ mirror.exists) => peer'.result # 0
       /\ (pc = "build" /\ pc' = "done") =>
              peer.pc # "cloning" /\ mirror # PartialMirror]_vars

\* C20 as stated: every privileged command that was issued (clone, fetch and
\* merge on /etc/nixos, nixos-rebuild) starts with sudo exactly when the
\* effective user id is not 0.
C20_AllPrivilegedRoutedByEuid ==
    \A i \in 1..Len(calls) :
        calls[i].cmd \in PrivilegedCmds =>
            (Argv(calls[i].cmd, euid)[1] = "sudo" <=> euid # 0)

\* C20: nixos-rebuild is executed directly when the effective user id is 0
\* and behind sudo otherwise, while the git commands on /etc/nixos are run
\* behind sudo whatever the effective user id is.
C20_OnlyApplyRoutedByEuid ==
    \A i \in 1..Len(calls) :
        LET argv == Argv(calls[i].cmd, euid)
        IN  /\ calls[i].cmd = "exec nixos-rebuild" =>
                 argv = IF euid = 0 THEN build_nixos_rebuild_command
                        ELSE <<"sudo">> \o build_nixos_rebuild_command
            /\ calls[i].cmd \in PrivilegedCmds \ {"exec nixos-rebuild"} =>
                 argv[1] = "sudo" /\ argv[2] = "git"

C20_Witness ==
    /\ euid = 0
    /\ Applied
    /\ Called("sudo git fetch")
    /\ Called("sudo git merge --ff-only")

\* the smallest element of a non-empty set of levels
MinOf(S) == CHOOSE x \in S : \A y \in S : x <= y

\* the levels of the resolved chain that exist and carry the markers
MarkedLevels == {l \in arg.real.marked : l <= arg.real.rootDepth}

\* C21 as stated: the locator returns the nearest of the first
\* FIND_UPWARDS_LIMIT ancestors of the resolved script that carries the
\* markers, and reports not found when none of them does.
C21_NearestAncestorWins ==
    pc = "done" =>
        LET near == MarkedLevels \cap (1..FIND_UPWARDS_LIMIT)
        IN  IF near = {} THEN ~ret.root.found
            ELSE ret.root = [found |-> TRUE, name |-> "real",
                             level |-> MinOf(near)]

\* C21: find_upwards (from the path, its parent and its grandparent) returns
\* the nearest marked level among the start and
\* the FIND_UPWARDS_LIMIT - 1 levels above it; repo_root_from_script_path
\* searches from the grandparent first and from the parent second, so it
\* returns the nearest marked level at or above the grandparent within
\* FIND_UPWARDS_LIMIT levels of it, else the parent if marked, else not
\* found; a level it returns is on the resolved chain and carries the markers.
C21_GrandparentFirst ==
    pc = "done" =>
        LET Window(s) == MarkedLevels \cap (s..(s + FIND_UPWARDS_LIMIT - 1))
            gp == Ancestor(2, arg.real)
        IN  /\ \A h \in 0..2 :
                  LET w == Window(Ancestor(h, arg.real))
                  IN  IF w = {} THEN ~ret.up[h].found
                      ELSE ret.up[h] = [found |-> TRUE, name |-> "real",
                                        level |-> MinOf(w)]
            /\ ret.root.found =>
                  ret.root.name = "real" /\ ret.root.level \in MarkedLevels
            /\ IF Window(gp) # {}
               THEN ret.root.level = MinOf(Window(gp))
               ELSE IF 1 \in MarkedLevels THEN ret.root.level = 1
               ELSE ret.root = NotFound

C21_Witness ==
    /\ pc = "done"
    /\ arg.given.name = "link"
    /\ {1, 2} \subseteq MarkedLevels
    /\ ret.root.level = 2

\* C22: a flag that is not declared and stands before the first "--" (or
\* anywhere, when there is no "--") makes parse_args fail; otherwise, when
\* there is a "--", the tokens after it are the passthrough list, in order,
\* and the apply command ends with exactly them.
C22_UnknownFlagBeforeSeparatorFails ==
    pc = "done" =>
        LET sep == SeparatorIndex(arg)
            last == IF sep = 0 THEN Len(arg) ELSE sep - 1
            after == SubSeq(arg, sep + 1, Len(arg))
            unknown == \E i \in 1..last :
                          StartsWithDash(arg[i]) /\ arg[i] \notin DeclaredFlags
        IN  /\ unknown => ret.args.error
            /\ (~ret.args.error /\ sep # 0) =>
                  /\ ret.args.rest = after
                  /\ ret.cmd = build_nixos_rebuild_command
                                   \o <<"--flake", "flakeref">> \o after

\* subprocess failures main tolerates under offline_ok
Tolerated(c) ==
    /\ cfg.offline_ok
    /\ c.cmd \in {"git fetch mirror", "sudo git fetch",
                  "sudo git merge --ff-only"}

\* the subprocesses that failed without being tolerated
FatalCalls == {i \in 1..Len(calls) : calls[i].rc # 0 /\ ~Tolerated(calls[i])}

\* C23 as stated: when a mirror-mode run has ended and a subprocess failed
\* without being tolerated, main's exit code is the exit code of the first
\* such subprocess.
C23_FirstFailureCodePropagated ==
    (pc = "done" /\ MirrorRun /\ FatalCalls # {}) =>
        result = calls[MinOf(FatalCalls)].rc

\* C23: the same for mirror clone, mirror fetch, privileged clone, privileged
\* fetch and fast-forward merge, while a failed origin lookup makes main
\* return 1 whatever code git returned; nothing is run after the failure.
C23_FailureCodeExceptOriginLookup ==
    (pc = "done" /\ MirrorRun /\ FatalCalls # {}) =>
        LET first == calls[MinOf(FatalCalls)]
        IN  /\ MinOf(FatalCalls) = Len(calls)
            /\ result = IF first.cmd = "git remote get-url" THEN 1
                        ELSE first.rc

C23_Witness ==
    /\ pc = "done"
    /\ MirrorRun
    /\ ~cfg.offline_ok
    /\ FatalCalls # {}
    /\ LastOf(calls) = Call("sudo git merge --ff-only", MaxRc)
    /\ result = MaxRc

\* C24: when compute_config fails (repository root not found, no host name,
\* no flake.nix in the configuration directory) main returns 1 at once: no
\* subprocess is started and nixos-rebuild is not executed, whatever the
\* sync, mirror and offline_ok settings are.
C24_ConfigErrorsFatal ==
    cfg.error # "none" =>
        /\ pc = "done"
        /\ result = 1
        /\ calls = <<>>
        /\ steps = <<Step("compute_config", 1)>>

C24_Witness ==
    /\ pc = "done"
    /\ cfg.error = "hostname"
    /\ cfg.sync_etc_nixos /\ cfg.flake_dir = "etc"
    /\ cfg.use_mirror /\ cfg.offline_ok
    /\ result = 1

\* C25: for arguments the parser accepts (it declares no --no-mirror), the
\* configuration compute_config returns has use_mirror set exactly when
\* --dev was not given.
C25_MirrorByDefault ==
    (pc = "done" /\ ret.ok) => (ret.use_mirror <=> ~arg.args.dev)

C27_CopyNeverOverwrites ==
    pc = "done" =>
        /\ arg.dst # AbsentPath =>
              ret.rc = 0 /\ ret.dst = arg.dst /\ ret.parent = arg.parent
        /\ arg.src = "absent" =>
              ret.rc = 0 /\ ret.dst = arg.dst /\ ret.parent = arg.parent
        /\ ret.dst # arg.dst => arg.dst = AbsentPath /\ arg.src # "absent"

C27_Witness ==
    /\ pc = "done"
    /\ arg.src = "file"
    /\ arg.dst = [kind |-> "dangling", content |-> "old"]
    /\ ret.rc = 0
    /\ ret.dst = arg.dst

\* the command names of a sequence of subprocesses
CmdsOf(cs) == [i \in 1..Len(cs) |-> cs[i].cmd]

WorktreeMergeCmds ==
    <<"git worktree list", "git worktree list --porcelain", "git fetch repo",
      "git status", "sudo git merge --ff-only">>

\* C28: whatever its subprocesses return, sync_worktree starts the
\* privileged merge --ff-only only as the fifth command, after the worktree
\* listing succeeded and named the directory, the unprivileged fetch
\* succeeded and the status succeeded and showed a clean tree, and only with
\* update_checkout; without a successful merge the worktree is left as it
\* was; no other command (no reset, no rebase) is ever started.
C28_MergeOnlyAfterChecks ==
    pc = "done" =>
        LET merged == \E i \in 1..Len(ret.calls) :
                         ret.calls[i].cmd = "sudo git merge --ff-only"
        IN  /\ IsPrefix(CmdsOf(ret.calls), WorktreeMergeCmds)
            /\ merged =>
                  /\ arg.o.listRc = 0 /\ arg.o.porcRc = 0 /\ arg.o.registered
                  /\ arg.o.fetchRc = 0 /\ arg.o.statusRc = 0
                  /\ \A i \in 1..4 : ret.calls[i].rc = 0
                  /\ ~arg.t.dirty
                  /\ arg.update_checkout
            /\ ret.target # arg.t =>
                  /\ merged /\ ret.rc = 0
                  /\ ret.target = [arg.t EXCEPT !.head = arg.uHead]

C28_Witness ==
    /\ pc = "done"
    /\ Len(ret.calls) = 5
    /\ ret.calls[5] = Call("sudo git merge --ff-only", 0)
    /\ ret.target.head = arg.uHead
    /\ ret.target # arg.t

C30_SyncOnlyForEtcNixos ==
    (cfg.ok /\ cfg.flake_dir # "etc") =>
        /\ IsPrefix(steps, <<Step("compute_config", 0), Step("exec", 0)>>)
        /\ IsPrefix(CmdsOf(calls), <<"exec nixos-rebuild">>)
        /\ pc \in {"build", "done"}

C30_Witness ==
    /\ cfg.ok
    /\ cfg.flake_dir = "other"
    /\ cfg.sync_etc_nixos /\ cfg.use_mirror
    /\ pc = "done"
    /\ calls = <<Call("exec nixos-rebuild", 0)>>

====
